---- MODULE Spec2Model ----
(***************************************************************************)
(* A model of the editor integration of the Noir toolchain:                *)
(*   - the debug launcher (resolveDebugConfiguration and its pre-flight    *)
(*     subprocess), with the output sanitizer preflightCheckPrinter;       *)
(*   - the language client's test tree and test runner (class Client).     *)
(* JavaScript values are records [t, s, b]: t is the typeof tag, s the     *)
(* string payload and b the boolean payload. Text handled by the sanitizer *)
(* is a sequence of code units (numbers).                                  *)
(***************************************************************************)
EXTENDS Integers, Sequences, FiniteSets, TLC

VARIABLES
  launch,         \* the current invocation of resolveDebugConfiguration
  preflightCheck, \* the child process spawned by that invocation
  outputChannel,  \* the module-level log sink: the lines appended since clear()
  session,        \* the host's debug session, started from a returned configuration
  buffer,         \* sanitizer harness: the Buffer handed to preflightCheckPrinter
  printed,        \* sanitizer harness: has the buffer been printed
  capabilities,   \* Client: the server capabilities given to initialize
  testController, \* Client: #testController and what was registered on it
  items,          \* Client: #testController.items, the package nodes in order
  applied,        \* Client: per package, the last snapshot handed to #createTests
  requests,       \* Client: the 'nargo/tests' requests awaiting their response
  runs,           \* Client: the invocations of #runTest
  added,          \* Client: per package, the last snapshot whose node items.add took
  handled         \* Client: the last handler of the tree that ran, and its calls

launcherVars == <<launch, preflightCheck, outputChannel, session>>
printerVars == <<buffer, printed>>
clientVars == <<capabilities, testController, items, applied, requests, runs,
                added, handled>>

(***************************************************************************)
(* Bounds of the model.                                                    *)
(***************************************************************************)
\* the longest Buffer handed to the sanitizer on its own
MaxLen == 4
\* the most 'data' events one pre-flight subprocess emits
MaxData == 1
\* the most invocations of #runTest
MaxRuns == 2
\* the most snapshots in one response of 'nargo/tests'
MaxResponse == 2

(***************************************************************************)
(* JavaScript values.                                                      *)
(***************************************************************************)
Undefined == [t |-> "undefined", s |-> "", b |-> FALSE]
Str(x) == [t |-> "string", s |-> x, b |-> FALSE]
Bool(x) == [t |-> "boolean", s |-> "", b |-> x]

\* ToBoolean: undefined and "" and false are falsy
Truthy(v) ==
  CASE v.t = "undefined" -> FALSE
    [] v.t = "string" -> v.s # ""
    [] v.t = "boolean" -> v.b

\* a || d
OrElse(v, d) == IF Truthy(v) THEN v ELSE d

\* A child's exit code: a number, or null when a signal killed it.
Code(n) == [t |-> "number", n |-> n]
Null == [t |-> "null", n |-> 0]
ExitCodes == {Code(0), Code(1), Null}

\* code !== 0
StrictNotZero(code) == ~(code.t = "number" /\ code.n = 0)
\* code == 0 (null == 0 is false)
LooseEqZero(code) == code.t = "number" /\ code.n = 0

(***************************************************************************)
(* The output sanitizer.                                                   *)
(***************************************************************************)
\* The bytes the model feeds the sanitizer: \t \n ESC space 0 M [ m, and the
\* two bytes of the UTF-8 form of U+00E9.
Bytes == {9, 10, 27, 32, 48, 77, 91, 109, 195, 169}

\* Buffer.toString(): UTF-8 decoding of the one- and two-byte forms; a byte
\* of 0x80 or more that is not part of a well-formed pair decodes to U+FFFD.
RECURSIVE toString(_)
toString(b) ==
  IF b = <<>> THEN <<>>
  ELSE IF b[1] < 128 THEN <<b[1]>> \o toString(Tail(b))
  ELSE IF /\ b[1] \in 194..223
          /\ Len(b) >= 2
          /\ b[2] \in 128..191
       THEN <<(b[1] % 32) * 64 + (b[2] % 64)>> \o toString(SubSeq(b, 3, Len(b)))
  ELSE <<65533>> \o toString(Tail(b))

\* the number of leading elements of s, from index i on, that lie in class
RECURSIVE ClassRun(_, _, _)
ClassRun(s, i, class) ==
  IF i <= Len(s) /\ s[i] \in class THEN 1 + ClassRun(s, i + 1, class) ELSE 0

\* The length of the match of /\x1b(?:[@-Z\\-_]|\[[0-?]*[ -/]*[@-~])/ at the
\* head of s, 0 when it does not match there. The three classes of the CSI
\* form are disjoint, so the greedy match is the only one.
EscapeMatch(s) ==
  IF Len(s) < 2 \/ s[1] # 27 THEN 0
  ELSE IF s[2] \in (64..90) \cup (92..95) THEN 2
  ELSE IF s[2] = 91
       THEN LET p == ClassRun(s, 3, 48..63)
                q == ClassRun(s, 3 + p, 32..47)
                k == 3 + p + q
            IN IF k <= Len(s) /\ s[k] \in 64..126 THEN k ELSE 0
  ELSE 0

\* .replace(/\x1b(?:...)/g, ''): leftmost matches, scanning on after each
RECURSIVE StripEscapes(_)
StripEscapes(s) ==
  IF s = <<>> THEN <<>>
  ELSE LET n == EscapeMatch(s)
       IN IF n > 0 THEN StripEscapes(SubSeq(s, n + 1, Len(s)))
          ELSE <<Head(s)>> \o StripEscapes(Tail(s))

\* a mutant of Printable: the class written [^ -\xff\n\t]
PrintableWide(c) == c \in 32..255 \/ c = 10 \/ c = 9

\* a code unit that /[^ -~\n\t]/ does not match
Printable(c) == c \in 32..126 \/ c = 10 \/ c = 9

\* .replace(/[^ -~\n\t]/g, '')
StripUnprintable(s) == SelectSeq(s, Printable)

\* the text preflightCheckPrinter computes from a Buffer
formattedOutput(b) == StripUnprintable(StripEscapes(toString(b)))

(***************************************************************************)
(* The log sink. A line is [kind, text, path, code].                       *)
(***************************************************************************)
Line(kind) == [kind |-> kind, text |-> <<>>, path |-> "", code |-> Null]
UsingLine(path) == [Line("Using nargo at") EXCEPT !.path = path]
DataLine(text) == [Line("data") EXCEPT !.text = text]
ExitLine(code) == [Line("Exited with code") EXCEPT !.code = code]

appendLine(channel, line) == Append(channel, line)

\* preflightCheckPrinter(buffer, output)
preflightCheckPrinter(b, output) == appendLine(output, DataLine(formattedOutput(b)))

(***************************************************************************)
(* The debug launcher.                                                     *)
(***************************************************************************)
\* The source files an editor can show, and the directory tree above them.
Files == {"/ws/a/src/main.nr", "/ws/a/lib/src/lib.nr"}
Parent ==
  [d \in {"/ws/a/src/main.nr", "/ws/a/lib/src/lib.nr", "/ws/a/src",
          "/ws/a/lib/src", "/ws/a/lib", "/ws/a", "/ws"} |->
     CASE d = "/ws/a/src/main.nr" -> "/ws/a/src"
       [] d = "/ws/a/lib/src/lib.nr" -> "/ws/a/lib/src"
       [] d = "/ws/a/src" -> "/ws/a"
       [] d = "/ws/a/lib/src" -> "/ws/a/lib"
       [] d = "/ws/a/lib" -> "/ws/a"
       [] d = "/ws/a" -> "/ws"
       [] d = "/ws" -> "/"]
\* the directories that hold a package manifest
PackageRoots == {"/ws/a", "/ws/a/lib"}

RECURSIVE NearestPackage(_)
NearestPackage(d) ==
  IF d \in PackageRoots THEN d
  ELSE IF d = "/" THEN ""
  ELSE NearestPackage(Parent[d])

\* findNearestPackageFrom(path): the nearest ancestor that is a package root
findNearestPackageFrom(path) == NearestPackage(Parent[path])

\* window.activeTextEditor: none, or a document with a language and a path
NoEditor == [languageId |-> "", fsPath |-> ""]
Editors ==
  {[languageId |-> "noir", fsPath |-> f] : f \in Files}
    \cup {[languageId |-> "plaintext", fsPath |-> "/ws/a/README.md"], NoEditor}

\* the 'noir.nargoPath' setting, and what findNargo() finds ("" : nothing,
\* and findNargo throws)
NargoSettings == {Undefined, Str("/opt/nargo")}
Discovered == {"/usr/bin/nargo", ""}

\* the DebugConfiguration objects the host passes in
Configs ==
  [type : {Str("noir")},
   name : {Undefined},
   projectFolder : {Undefined, Str(""), Str("/proj")},
   package : {Undefined, Str(""), Str("pkg")},
   proverName : {Undefined, Str("Inputs")},
   generateAcir : {Undefined, Bool(TRUE)},
   skipInstrumentation : {Bool(FALSE), Bool(TRUE)}]

NoConfig ==
  [type |-> Undefined, name |-> Undefined, projectFolder |-> Undefined,
   package |-> Undefined, proverName |-> Undefined, generateAcir |-> Undefined,
   skipInstrumentation |-> Undefined]

NoResolved ==
  [type |-> Undefined, name |-> Undefined, request |-> Undefined,
   program |-> Undefined, projectFolder |-> Undefined, package |-> Undefined,
   proverName |-> Undefined, generateAcir |-> Undefined,
   skipInstrumentation |-> Undefined]

\* a mutant of projectFolder: the override is ignored
projectFolderNearestOnly(config, currentFilePath) ==
  Str(findNearestPackageFrom(currentFilePath))

\* const projectFolder = config.projectFolder && config.projectFolder !== ``
\*   ? config.projectFolder : findNearestPackageFrom(currentFilePath)
projectFolder(config, currentFilePath) ==
  IF Truthy(config.projectFolder) /\ config.projectFolder # Str("")
  THEN config.projectFolder
  ELSE Str(findNearestPackageFrom(currentFilePath))

resolvedConfig(config, currentFilePath) ==
  [type |-> OrElse(config.type, Str("noir")),
   name |-> OrElse(config.name, Str("Noir binary package")),
   request |-> Str("launch"),
   program |-> Str(currentFilePath),
   projectFolder |-> projectFolder(config, currentFilePath),
   package |-> OrElse(config.package, Str("")),
   proverName |-> OrElse(config.proverName, Str("Prover")),
   generateAcir |-> OrElse(config.generateAcir, Bool(FALSE)),
   skipInstrumentation |-> OrElse(config.skipInstrumentation, Bool(FALSE))]

\* a mutant of preflightArgs: the two optional flags are pushed in the other order
preflightArgsSwapped(config, resolved) ==
  <<Str("dap"), Str("--preflight-check"), Str("--preflight-project-folder"),
    resolved.projectFolder, Str("--preflight-prover-name"), resolved.proverName>>
    \o (IF resolved.package # Str("")
        THEN <<Str("--preflight-package"), config.package>> ELSE <<>>)
    \o (IF Truthy(resolved.skipInstrumentation)
        THEN <<Str("--preflight-skip-instrumentation")>> ELSE <<>>)
    \o (IF Truthy(resolved.generateAcir)
        THEN <<Str("--preflight-generate-acir")>> ELSE <<>>)

\* the argument list built for the pre-flight subprocess
preflightArgs(config, resolved) ==
  <<Str("dap"), Str("--preflight-check"), Str("--preflight-project-folder"),
    resolved.projectFolder, Str("--preflight-prover-name"), resolved.proverName>>
    \o (IF resolved.package # Str("")
        THEN <<Str("--preflight-package"), config.package>> ELSE <<>>)
    \o (IF Truthy(resolved.generateAcir)
        THEN <<Str("--preflight-generate-acir")>> ELSE <<>>)
    \o (IF Truthy(resolved.skipInstrumentation)
        THEN <<Str("--preflight-skip-instrumentation")>> ELSE <<>>)

NoProcess == [state |-> "none", command |-> "", args |-> <<>>, code |-> Null, data |-> 0]
NoSession == [state |-> "none", args |-> <<>>]

\* events is what the exit handler and the code after the await did, in
\* order: "exit line", "show", "throw", "starting line", "return"
IdleLaunch ==
  [pc |-> "idle", editor |-> NoEditor, config |-> NoConfig, nargoPath |-> "",
   resolved |-> NoResolved, spawns |-> 0, ready |-> "unset", showed |-> FALSE,
   result |-> "pending", events |-> <<>>]

\* resolveDebugConfiguration up to its await: the early return, the lookup
\* of the binary, the resolved configuration, the log header and the spawn.
\* The host asks for one configuration at a time, and for the next one once
\* the session of the last one is over.
resolveDebugConfiguration(config, editor, setting, discovered) ==
  /\ launch.pc = "idle"
  /\ session.state = "none"
  /\ LET fresh == [IdleLaunch EXCEPT !.editor = editor, !.config = config]
     IN IF editor.languageId # "noir"
        THEN \* return window.showInformationMessage(...)
             /\ launch' = [fresh EXCEPT !.pc = "done", !.result = "message"]
             /\ UNCHANGED <<preflightCheck, outputChannel>>
        ELSE IF ~Truthy(setting) /\ discovered = ""
        THEN \* findNargo() throws
             /\ launch' = [fresh EXCEPT !.pc = "done", !.result = "error"]
             /\ UNCHANGED <<preflightCheck, outputChannel>>
        ELSE LET nargoPath == IF Truthy(setting) THEN setting.s ELSE discovered
                 resolved == resolvedConfig(config, editor.fsPath)
             IN /\ outputChannel' =
                     appendLine(appendLine(appendLine(<<>>, UsingLine(nargoPath)),
                                           Line("Compiling Noir project...")),
                                Line(""))
                /\ preflightCheck' =
                     [state |-> "running", command |-> nargoPath,
                      args |-> preflightArgs(config, resolved),
                      code |-> Null, data |-> 0]
                /\ launch' = [fresh EXCEPT !.pc = "awaiting",
                                           !.nargoPath = nargoPath,
                                           !.resolved = resolved,
                                           !.spawns = 1]
  /\ UNCHANGED <<session, printerVars, clientVars>>

\* a mutant of monitorSettled: the await is left out, !promise is tested
monitorSettledNoAwait(l) == TRUE

\* has preflightCheckMonitor been resolved: the await suspends until it is
monitorSettled(l) == l.ready # "unset"

\* the continuation of the await is due: it runs before any other event
Resumed == launch.pc = "awaiting" /\ monitorSettled(launch)

\* a 'data' event of the child's stdout or stderr
onData(chunk) ==
  /\ preflightCheck.state \in {"running", "exited"}
  /\ ~Resumed
  /\ preflightCheck.data < MaxData
  /\ outputChannel' = preflightCheckPrinter(chunk, outputChannel)
  /\ preflightCheck' = [preflightCheck EXCEPT !.data = @ + 1]
  /\ UNCHANGED <<launch, session, printerVars, clientVars>>

\* a mutant of readyValue: ready(!code)
readyValueNot(code) == code.t = "null" \/ code.n = 0

\* the value the exit handler passes to ready: code == 0
readyValue(code) == LooseEqZero(code)

\* the child's 'exit' event
onExit(code) ==
  /\ preflightCheck.state = "running"
  /\ launch.pc = "awaiting"
  /\ outputChannel' = IF StrictNotZero(code)
                      THEN appendLine(outputChannel, ExitLine(code))
                      ELSE outputChannel
  /\ preflightCheck' = [preflightCheck EXCEPT !.state = "exited", !.code = code]
  /\ launch' = [launch EXCEPT !.ready = IF readyValue(code) THEN "true" ELSE "false",
                               !.events = IF StrictNotZero(code)
                                          THEN Append(@, "exit line") ELSE @]
  /\ UNCHANGED <<session, printerVars, clientVars>>

\* a mutant of show: the sink is left as it is
showNot(l) == l

\* outputChannel.show()
show(l) == [l EXCEPT !.showed = TRUE, !.events = Append(@, "show")]

\* throw new Error('Error launching debugger. ...')
throwError(l) == [l EXCEPT !.pc = "done", !.result = "error", !.events = Append(@, "throw")]

\* the rest of resolveDebugConfiguration, run as the awaited promise settles
afterAwait ==
  /\ Resumed
  /\ IF launch.ready # "true"
     THEN /\ launch' = throwError(show(launch))
          /\ UNCHANGED outputChannel
     ELSE /\ outputChannel' =
               appendLine(outputChannel, Line("Starting debugger session..."))
          /\ launch' = [launch EXCEPT !.pc = "done", !.result = "config",
                                      !.events = @ \o <<"starting line", "return">>]
  /\ UNCHANGED <<preflightCheck, session, printerVars, clientVars>>

\* the host takes a rejection, or the promise of the information message
hostSettles ==
  /\ launch.pc = "done"
  /\ launch.result \in {"error", "message"}
  /\ launch' = IdleLaunch
  /\ preflightCheck' = NoProcess
  /\ UNCHANGED <<outputChannel, session, printerVars, clientVars>>

\* createDebugAdapterDescriptor: the host starts the session of the
\* configuration it was given, with the executable
\* new DebugAdapterExecutable(nargoPath, ['dap'])
createDebugAdapterDescriptor ==
  /\ launch.pc = "done"
  /\ launch.result = "config"
  /\ session.state = "none"
  /\ launch' = IdleLaunch
  /\ preflightCheck' = NoProcess
  /\ session' = [state |-> "running", args |-> <<"dap">>]
  /\ UNCHANGED <<outputChannel, printerVars, clientVars>>

\* debug.onDidTerminateDebugSession
onDidTerminateDebugSession ==
  /\ session.state = "running"
  /\ ~Resumed
  /\ session' = NoSession
  /\ outputChannel' = appendLine(outputChannel, Line("Debug session ended."))
  /\ UNCHANGED <<launch, preflightCheck, printerVars, clientVars>>

(***************************************************************************)
(* The language client: the test tree.                                     *)
(* A TestItem is [id, parent, kids]: parent is the id of the package node  *)
(* it was added to ("" for a package node), kids the ids of its children   *)
(* in order. #createTests builds new TestItems on every call and never     *)
(* changes one it built before.                                            *)
(***************************************************************************)
Packages == {"a", "b"}
TestLists == {<<"t1">>, <<"t1", "t2">>}

\* the NargoTests payloads: the tests field is optional
NargoTests ==
  [package : Packages, hasTests : {TRUE}, tests : TestLists]
    \cup [package : Packages, hasTests : {FALSE}, tests : {<<>>}]

NoSnapshot == [package |-> "", hasTests |-> FALSE, tests |-> <<>>]

NoItem == [id |-> "", parent |-> "", kids |-> <<>>]

\* createTestItem(testData.package, ...) with its children added
PackageItem(testData) == [id |-> testData.package, parent |-> "", kids |-> testData.tests]

\* test.children of a package node, in order
children(test) == [i \in 1..Len(test.kids) |-> [id |-> test.kids[i], parent |-> test.id, kids |-> <<>>]]

\* the index of the node of package id in coll, 0 when it has none
IndexOf(coll, id) ==
  IF \E i \in 1..Len(coll) : coll[i].id = id
  THEN CHOOSE i \in 1..Len(coll) : coll[i].id = id
  ELSE 0

\* #testController.items.get(id)
itemsGet(coll, id) == IF IndexOf(coll, id) = 0 THEN NoItem ELSE coll[IndexOf(coll, id)]

\* a mutant of itemsAdd: the new children are merged into the old node
itemsAddMerged(coll, pkg) ==
  IF IndexOf(coll, pkg.id) = 0 THEN Append(coll, pkg)
  ELSE LET old == coll[IndexOf(coll, pkg.id)]
           more == SelectSeq(pkg.kids, LAMBDA k : \A i \in 1..Len(old.kids) : old.kids[i] # k)
       IN [coll EXCEPT ![IndexOf(coll, pkg.id)] = [old EXCEPT !.kids = @ \o more]]

\* #testController.items.add(pkg): a node of the same id is replaced
itemsAdd(coll, pkg) ==
  IF IndexOf(coll, pkg.id) = 0 THEN Append(coll, pkg)
  ELSE [coll EXCEPT ![IndexOf(coll, pkg.id)] = pkg]

\* #createTests(testData) on the tree: testData.tests.forEach throws a
\* TypeError when the tests field is absent, before items.add is reached
createTests(coll, testData) ==
  IF testData.hasTests
  THEN [items |-> itemsAdd(coll, PackageItem(testData)), threw |-> FALSE]
  ELSE [items |-> coll, threw |-> TRUE]

\* the calls a handler makes on the test controller, as the host sees them:
\* invalidateTestResults(item), with id "" for an undefined item, which the
\* host takes as every result of the controller, and items.add(pkg)
InvalidateCall(item) == [op |-> "invalidateTestResults", id |-> item.id, kids |-> <<>>]
AddCall(pkg) == [op |-> "add", id |-> pkg.id, kids |-> pkg.kids]

NoHandler == [op |-> "none", response |-> <<>>, calls |-> <<>>, threw |-> FALSE]

\* a handler of the tree as it starts: op is "fetch", "refresh" or "update",
\* response the snapshots the server sent
Started(op, response) ==
  [op |-> op, response |-> response,
   items |-> items, applied |-> applied, added |-> added,
   calls |-> <<>>, threw |-> FALSE,
   created |-> testController.created,
   invalidate |-> testController.invalidateTestResults]

\* this.#createTests(testData), in a handler
callCreateTests(state, testData) ==
  LET made == createTests(state.items, testData)
  IN [state EXCEPT !.items = made.items,
                   !.applied[testData.package] = testData,
                   !.added[testData.package] = IF made.threw THEN @ ELSE testData,
                   !.calls = IF made.threw THEN @
                             ELSE Append(@, AddCall(PackageItem(testData))),
                   !.threw = made.threw]

\* #updateTests(testData): without a test controller the read of
\* this.#testController.invalidateTestResults throws a TypeError; with one,
\* the results of the package's present node are invalidated when the host
\* has the function, and then #createTests is called
updateTests(state, testData) ==
  IF ~state.created THEN [state EXCEPT !.threw = TRUE]
  ELSE callCreateTests(
         IF state.invalidate
         THEN [state EXCEPT !.calls =
                 Append(@, InvalidateCall(itemsGet(state.items, testData.package)))]
         ELSE state,
         testData)

\* response.forEach(...) of #fetchTests, whose body is #createTests, and of
\* #refreshTests, whose body is #updateTests: the snapshots are handled in
\* order, and an exception ends the forEach
RECURSIVE forEachSnapshot(_, _, _)
forEachSnapshot(state, response, i) ==
  IF i > Len(response) THEN state
  ELSE LET next == IF state.op = "fetch"
                   THEN callCreateTests(state, response[i])
                   ELSE updateTests(state, response[i])
       IN IF next.threw THEN next ELSE forEachSnapshot(next, response, i + 1)

\* what the server advertises: capabilities.nargo.tests, or no tests block
Capabilities ==
  [tests : {TRUE}, fetch : BOOLEAN, run : BOOLEAN, update : BOOLEAN]
    \cup {[tests |-> FALSE, fetch |-> FALSE, run |-> FALSE, update |-> FALSE]}

\* what the client has of them: it never reads the update flag
NotInitialized == [tests |-> FALSE, fetch |-> FALSE, run |-> FALSE, initialized |-> FALSE]

NoController ==
  [created |-> FALSE, resolveHandler |-> FALSE, runProfile |-> FALSE,
   invalidateTestResults |-> FALSE]

\* a mutant of createTestController: both handlers are registered whatever
\* the server advertised
createTestControllerUngated(caps, host) ==
  [created |-> TRUE, resolveHandler |-> TRUE, runProfile |-> TRUE,
   invalidateTestResults |-> host]

\* tests.createTestController(...) and what initialize registers on the
\* controller; host tells whether the host's controller has the function
\* invalidateTestResults (vscode 1.81.0 and later)
createTestController(caps, host) ==
  [created |-> TRUE, resolveHandler |-> caps.fetch, runProfile |-> caps.run,
   invalidateTestResults |-> host]

\* registerFeature(...).initialize(capabilities)
initialize(caps, host) ==
  /\ ~capabilities.initialized
  /\ capabilities' = [tests |-> caps.tests, fetch |-> caps.fetch, run |-> caps.run,
                      initialized |-> TRUE]
  /\ testController' =
       IF caps.tests THEN createTestController(caps, host) ELSE testController
  /\ UNCHANGED <<items, applied, requests, runs, added, handled,
                 launcherVars, printerVars>>

\* resolveHandler -> #fetchTests, up to its await
fetchTests ==
  /\ testController.resolveHandler
  /\ ~requests.fetch
  /\ requests' = [requests EXCEPT !.fetch = TRUE]
  /\ UNCHANGED <<capabilities, testController, items, applied, runs,
                 added, handled, launcherVars, printerVars>>

\* refreshHandler -> #refreshTests, up to its await
refreshTests ==
  /\ testController.resolveHandler
  /\ ~requests.refresh
  /\ requests' = [requests EXCEPT !.refresh = TRUE]
  /\ UNCHANGED <<capabilities, testController, items, applied, runs,
                 added, handled, launcherVars, printerVars>>

\* a handler of the tree is over: the tree it leaves and what it did
Finished(done) ==
  /\ items' = done.items
  /\ applied' = done.applied
  /\ added' = done.added
  /\ handled' = [op |-> done.op, response |-> done.response,
                  calls |-> done.calls, threw |-> done.threw]

\* the response of 'nargo/tests' arrives: #fetchTests applies each snapshot
\* with #createTests, #refreshTests with #updateTests
onTestsResponse(kind, response) ==
  /\ requests[kind]
  /\ requests' = [requests EXCEPT ![kind] = FALSE]
  /\ Finished(forEachSnapshot(Started(kind, response), response, 1))
  /\ UNCHANGED <<capabilities, testController, runs, launcherVars, printerVars>>

\* the 'nargo/tests' request fails: the rejection leaves the handler
onTestsError(kind) ==
  /\ requests[kind]
  /\ requests' = [requests EXCEPT ![kind] = FALSE]
  /\ handled' = [op |-> kind, response |-> <<>>, calls |-> <<>>, threw |-> TRUE]
  /\ UNCHANGED <<capabilities, testController, items, applied, added, runs,
                 launcherVars, printerVars>>

\* onNotification('nargo/tests/update') -> #updateTests(testData); the
\* handler is registered in the constructor, whatever the server advertises
onUpdate(testData) ==
  /\ capabilities.initialized
  /\ Finished(updateTests(Started("update", <<testData>>), testData))
  /\ UNCHANGED <<capabilities, testController, requests, runs,
                 launcherVars, printerVars>>

(***************************************************************************)
(* The language client: the test runner.                                   *)
(***************************************************************************)
\* an invocation of #runTest: the request it was given (included tells
\* whether request.include is defined), its queue and the test it awaits,
\* and what the server and the host have seen of it: the nodes dequeued
\* (order), the requests sent, the responses and rejections received, the
\* verdicts reported on the TestRun and the calls of run.end()
IdleRun ==
  [pc |-> "idle", initial |-> <<>>, exclude |-> {}, queue |-> <<>>,
   test |-> NoItem, cancelled |-> FALSE, order |-> <<>>, sent |-> <<>>,
   verdicts |-> <<>>, ended |-> 0,
   included |-> FALSE, include |-> <<>>, responses |-> <<>>, rejections |-> 0]

Front(q) == SubSeq(q, 1, Len(q) - 1)

\* a mutant of pop: the queue is read from its front
popShift(queue) == [test |-> Head(queue), rest |-> Tail(queue)]

\* queue.pop()
pop(queue) == [test |-> queue[Len(queue)], rest |-> Front(queue)]

\* a mutant of loopCondition: the token is not looked at
loopConditionNoToken(run) == Len(run.queue) > 0

\* queue.length > 0 && !token.isCancellationRequested
loopCondition(run) == Len(run.queue) > 0 /\ ~run.cancelled

\* a mutant of hasParent: the package headers are run too
hasParentAlways(test) == TRUE

\* if (test.parent)
hasParent(test) == test.parent # ""

\* a mutant of excludeIncludes: only leaves are skipped
excludeIncludesLeaves(exclude, test) == test \in exclude /\ test.parent # ""

\* request.exclude?.includes(test)
excludeIncludes(exclude, test) == test \in exclude

RECURSIVE loop(_)

\* a mutant of awaitSendRequest: the request is sent and not awaited
awaitSendRequestNoAwait(run, test) ==
  loop([run EXCEPT !.sent = Append(@, test)])

\* await this.sendRequest('nargo/tests/run', {id: test.id}, token): the
\* request is sent and #runTest is suspended
awaitSendRequest(run, test) ==
  [run EXCEPT !.pc = "awaiting", !.test = test, !.sent = Append(@, test)]

\* the while loop of #runTest from its condition on, up to the next await
\* or to run.end()
loop(run) ==
  IF ~loopCondition(run)
  THEN [run EXCEPT !.pc = "ended", !.test = NoItem, !.ended = @ + 1]
  ELSE LET test == pop(run.queue).test
           popped == [run EXCEPT !.queue = pop(run.queue).rest,
                                 !.order = Append(@, test),
                                 !.test = NoItem]
       IN IF excludeIncludes(run.exclude, test) THEN loop(popped)
          ELSE IF hasParent(test) THEN awaitSendRequest(popped, test)
          ELSE loop([popped EXCEPT !.queue = @ \o children(test)])

\* the run profile's handler -> #runTest(request, token), up to its first
\* await: request.include, or every node of items when there is none
runTest(r, included, include, exclude) ==
  /\ testController.runProfile
  /\ runs[r].pc = "idle"
  /\ LET queue == IF included THEN include ELSE items
     IN runs' = [runs EXCEPT ![r] =
                   loop([IdleRun EXCEPT !.initial = queue, !.queue = queue,
                                        !.exclude = exclude,
                                        !.included = included,
                                        !.include = IF included THEN include ELSE <<>>])]
  /\ UNCHANGED <<capabilities, testController, items, applied, requests,
                 added, handled, launcherVars, printerVars>>

\* a mutant of verdictOf: the result 'error' is taken for a pass
verdictOfErrorPasses(test, result, message) ==
  IF result \in {"pass", "error"} THEN <<[test |-> test, state |-> "passed", message |-> ""]>>
  ELSE IF result = "fail"
       THEN <<[test |-> test, state |-> "failed", message |-> message]>>
  ELSE <<>>

\* the verdict reported for a response: run.passed(test), or
\* run.failed(test, new TestMessage(message)), or none
verdictOf(test, result, message) ==
  IF result = "pass" THEN <<[test |-> test, state |-> "passed", message |-> ""]>>
  ELSE IF result \in {"fail", "error"}
       THEN <<[test |-> test, state |-> "failed", message |-> message]>>
  ELSE <<>>

\* the response {id, result, message} of 'nargo/tests/run' arrives and
\* #runTest goes on: the id of the response is not read
onRunResponse(r, id, result, message) ==
  /\ runs[r].pc = "awaiting"
  /\ runs' = [runs EXCEPT ![r] =
                loop([runs[r] EXCEPT
                        !.responses = Append(@, [id |-> id, result |-> result,
                                                 message |-> message]),
                        !.verdicts = @ \o verdictOf(runs[r].test, result, message)])]
  /\ UNCHANGED <<capabilities, testController, items, applied, requests,
                 added, handled, launcherVars, printerVars>>

\* a mutant of onRunError: the failed request is sent again
onRunErrorRetry(r) ==
  /\ runs[r].pc = "awaiting"
  /\ runs' = [runs EXCEPT ![r] = [@ EXCEPT !.rejections = @ + 1,
                                           !.sent = Append(@, runs[r].test)]]
  /\ UNCHANGED <<capabilities, testController, items, applied, requests,
                 added, handled, launcherVars, printerVars>>

\* the 'nargo/tests/run' request fails: the await throws, nothing in
\* #runTest or in the run profile's handler catches it, and the rejection
\* goes to the host
onRunError(r) ==
  /\ runs[r].pc = "awaiting"
  /\ runs' = [runs EXCEPT ![r] = [@ EXCEPT !.pc = "rejected", !.rejections = @ + 1]]
  /\ UNCHANGED <<capabilities, testController, items, applied, requests,
                 added, handled, launcherVars, printerVars>>

\* the host cancels the run's token
cancel(r) ==
  /\ runs[r].pc = "awaiting"
  /\ ~runs[r].cancelled
  /\ runs' = [runs EXCEPT ![r] = [@ EXCEPT !.cancelled = TRUE]]
  /\ UNCHANGED <<capabilities, testController, items, applied, requests,
                 added, handled, launcherVars, printerVars>>

ClientInit ==
  /\ capabilities = NotInitialized
  /\ testController = NoController
  /\ items = <<>>
  /\ applied = [p \in Packages |-> NoSnapshot]
  /\ requests = [fetch |-> FALSE, refresh |-> FALSE]
  /\ runs = [r \in 1..MaxRuns |-> IdleRun]
  /\ added = [p \in Packages |-> NoSnapshot]
  /\ handled = NoHandler

\* the chunks a pre-flight subprocess writes
Chunks == {<<27, 91, 48, 109, 77, 195, 169>>, <<109, 10>>}

InitLaunch ==
  /\ launch = IdleLaunch
  /\ preflightCheck = NoProcess
  /\ outputChannel = <<>>
  /\ session = NoSession
  /\ buffer = <<>>
  /\ printed = FALSE
  /\ ClientInit

NextLaunch ==
  \/ \E config \in Configs, editor \in Editors,
        setting \in NargoSettings, discovered \in Discovered :
       resolveDebugConfiguration(config, editor, setting, discovered)
  \/ \E chunk \in Chunks : onData(chunk)
  \/ \E code \in ExitCodes : onExit(code)
  \/ afterAwait
  \/ hostSettles
  \/ createDebugAdapterDescriptor
  \/ onDidTerminateDebugSession

vars == <<launcherVars, printerVars, clientVars>>

SpecLaunch == InitLaunch /\ [][NextLaunch]_vars

(***************************************************************************)
(* The sanitizer on its own: every Buffer of at most MaxLen bytes.         *)
(***************************************************************************)
BoundedSeq(S, n) == UNION {[1..k -> S] : k \in 0..n}

InitPrinter ==
  /\ launch = IdleLaunch
  /\ preflightCheck = NoProcess
  /\ outputChannel = <<>>
  /\ session = NoSession
  /\ buffer \in BoundedSeq(Bytes, MaxLen)
  /\ printed = FALSE
  /\ ClientInit

\* preflightCheckPrinter(buffer, outputChannel)
printBuffer ==
  /\ ~printed
  /\ outputChannel' = preflightCheckPrinter(buffer, outputChannel)
  /\ printed' = TRUE
  /\ UNCHANGED <<launch, preflightCheck, session, buffer, clientVars>>

NextPrinter == printBuffer

SpecPrinter == InitPrinter /\ [][NextPrinter]_vars

(***************************************************************************)
(* The language client on its own.                                         *)
(***************************************************************************)
\* the nodes of a tree: the package nodes and their children
Nodes(coll) ==
  {coll[i] : i \in 1..Len(coll)}
    \cup UNION {{children(coll[i])[j] : j \in 1..Len(coll[i].kids)} : i \in 1..Len(coll)}

\* request.include, when the host gives one: no node, one node, or a
\* package node and one of its children
Includes(coll) ==
  {<<>>} \cup {<<n>> : n \in Nodes(coll)}
    \cup UNION {{<<coll[i], children(coll[i])[j]>> : j \in 1..Len(coll[i].kids)} :
                  i \in 1..Len(coll)}

\* request.exclude: nothing, or one node
Excludes(coll) == {{}} \cup {{n} : n \in Nodes(coll)}

\* RunTestResult.result
Results == {"pass", "fail", "error"}

InitTests ==
  /\ launch = IdleLaunch
  /\ preflightCheck = NoProcess
  /\ outputChannel = <<>>
  /\ session = NoSession
  /\ buffer = <<>>
  /\ printed = FALSE
  /\ ClientInit

\* the tree and its three sources: resolve, refresh and update notifications
NextTests ==
  \/ \E caps \in Capabilities, host \in BOOLEAN : initialize(caps, host)
  \/ fetchTests
  \/ refreshTests
  \/ \E kind \in {"fetch", "refresh"}, response \in BoundedSeq(NargoTests, MaxResponse) :
       onTestsResponse(kind, response)
  \/ \E kind \in {"fetch", "refresh"} : onTestsError(kind)
  \/ \E testData \in NargoTests : onUpdate(testData)

SpecTests == InitTests /\ [][NextTests]_vars

\* the tree changed by resolve responses and update notifications while a
\* run of the whole tree goes on
NextTreeRun ==
  \/ \E caps \in Capabilities : initialize(caps, TRUE)
  \/ fetchTests
  \/ \E response \in BoundedSeq({t \in NargoTests : t.hasTests}, MaxResponse) :
       onTestsResponse("fetch", response)
  \/ \E testData \in NargoTests : onUpdate(testData)
  \/ runTest(1, FALSE, <<>>, {})
  \/ onRunResponse(1, runs[1].test.id, "pass", "")

SpecTreeRun == InitTests /\ [][NextTreeRun]_vars

\* one run of any request the host can make, on a tree that a fetch and
\* update notifications build and change
NextRun ==
  \/ \E caps \in Capabilities : initialize(caps, TRUE)
  \/ \E testData \in {t \in NargoTests : t.hasTests} : onUpdate(testData)
  \/ \E include \in Includes(items), exclude \in Excludes(items) :
       runTest(1, TRUE, include, exclude)
  \/ \E exclude \in Excludes(items) : runTest(1, FALSE, <<>>, exclude)
  \/ \E result \in {"pass", "fail"} :
       onRunResponse(1, runs[1].test.id, result, "assertion failed")
  \/ onRunError(1)
  \/ cancel(1)

SpecRun == InitTests /\ [][NextRun]_vars

\* the server answers every request it is sent, with a response or with an
\* error
answered ==
  \/ \E result \in {"pass", "fail"} :
       onRunResponse(1, runs[1].test.id, result, "assertion failed")
  \/ onRunError(1)

SpecRunFair == SpecRun /\ WF_vars(answered)

\* the same run with a server that answers every request with a response
answeredWithResult ==
  \E result \in {"pass", "fail"} :
    onRunResponse(1, runs[1].test.id, result, "assertion failed")

NextRunAnswered ==
  \/ \E caps \in Capabilities : initialize(caps, TRUE)
  \/ \E testData \in {t \in NargoTests : t.hasTests} : onUpdate(testData)
  \/ \E include \in Includes(items), exclude \in Excludes(items) :
       runTest(1, TRUE, include, exclude)
  \/ \E exclude \in Excludes(items) : runTest(1, FALSE, <<>>, exclude)
  \/ answeredWithResult
  \/ cancel(1)

SpecRunAnswered == InitTests /\ [][NextRunAnswered]_vars /\ WF_vars(answeredWithResult)

\* one run of the whole tree, answered with every result and with the id
\* that was requested or another one
NextVerdicts ==
  \/ \E caps \in Capabilities : initialize(caps, TRUE)
  \/ \E testData \in {t \in NargoTests : t.hasTests} : onUpdate(testData)
  \/ runTest(1, FALSE, <<>>, {})
  \/ \E id \in {runs[1].test.id, "other"}, result \in Results :
       onRunResponse(1, id, result, "assertion failed")

SpecVerdicts == InitTests /\ [][NextVerdicts]_vars

\* several runs of the whole tree at once, on a tree of one package that
\* update notifications build and change
NextRuns ==
  \/ \E caps \in Capabilities : initialize(caps, TRUE)
  \/ \E testData \in {t \in NargoTests : t.package = "a" /\ t.hasTests} : onUpdate(testData)
  \/ \E r \in 1..MaxRuns : runTest(r, FALSE, <<>>, {})
  \/ \E r \in 1..MaxRuns, result \in Results :
       onRunResponse(r, runs[r].test.id, result, "assertion failed")
  \/ \E r \in 1..MaxRuns : onRunError(r)
  \/ \E r \in 1..MaxRuns : cancel(r)

SpecRuns == InitTests /\ [][NextRuns]_vars

(***************************************************************************)
(* Properties of the debug launcher.                                       *)
(***************************************************************************)
\* the launch request has completed after its subprocess exited with code
Completed == launch.pc = "done" /\ preflightCheck.state = "exited"

\* C1: a launch whose pre-flight subprocess exited with a code other than 0,
\* null included, ends in a thrown error and returns no configuration;
\* the promise the flow awaits was resolved with false.
C1_NonzeroExitThrows ==
  /\ (preflightCheck.state = "exited" /\ preflightCheck.code # Code(0))
       => launch.ready = "false" /\ launch.result # "config"
  /\ (Completed /\ preflightCheck.code # Code(0)) => launch.result = "error"

C1_Witness ==
  Completed /\ preflightCheck.code = Null /\ launch.result = "error"

\* the override of the project folder the host supplied, if it is one
ExplicitProjectFolder(config) ==
  config.projectFolder.t = "string" /\ config.projectFolder.s # ""

\* C2: a launch whose pre-flight subprocess exited 0 returns a configuration
\* whose program is the active file's path and whose projectFolder is the
\* supplied config.projectFolder when that is non-empty and the nearest
\* ancestor package root of the file otherwise.
C2_ReturnedConfiguration ==
  (Completed /\ preflightCheck.code = Code(0)) =>
    /\ launch.result = "config"
    /\ launch.resolved.program = Str(launch.editor.fsPath)
    /\ launch.resolved.projectFolder =
         IF ExplicitProjectFolder(launch.config)
         THEN launch.config.projectFolder
         ELSE Str(findNearestPackageFrom(launch.editor.fsPath))

C2_Witness ==
  /\ Completed
  /\ launch.result = "config"
  /\ launch.config.projectFolder = Str("/proj")
  /\ launch.resolved.projectFolder = Str("/proj")
  /\ launch.resolved.program = Str("/ws/a/lib/src/lib.nr")

\* the six arguments every pre-flight invocation starts with
BaseArgs(folder, prover) ==
  <<Str("dap"), Str("--preflight-check"), Str("--preflight-project-folder"),
    folder, Str("--preflight-prover-name"), prover>>

\* C3: the argument list of the spawned subprocess is the six base
\* arguments, then --preflight-package and the package iff the package is
\* non-empty, then --preflight-generate-acir iff generateAcir, then
\* --preflight-skip-instrumentation iff skipInstrumentation; /proj, Prover, no
\* package and no flag give exactly the six base arguments.
C3_PreflightArgs ==
  preflightCheck.state # "none" =>
    LET r == launch.resolved
    IN /\ preflightCheck.args =
            BaseArgs(r.projectFolder, r.proverName)
              \o (IF r.package # Str("")
                  THEN <<Str("--preflight-package"), r.package>> ELSE <<>>)
              \o (IF r.generateAcir = Bool(TRUE)
                  THEN <<Str("--preflight-generate-acir")>> ELSE <<>>)
              \o (IF r.skipInstrumentation = Bool(TRUE)
                  THEN <<Str("--preflight-skip-instrumentation")>> ELSE <<>>)
       /\ (/\ r.projectFolder = Str("/proj")
           /\ r.proverName = Str("Prover")
           /\ r.package = Str("")
           /\ r.generateAcir = Bool(FALSE)
           /\ r.skipInstrumentation = Bool(FALSE))
            => preflightCheck.args =
                 <<Str("dap"), Str("--preflight-check"),
                   Str("--preflight-project-folder"), Str("/proj"),
                   Str("--preflight-prover-name"), Str("Prover")>>

C3_Witness ==
  /\ preflightCheck.state = "running"
  /\ Len(preflightCheck.args) = 10
  /\ preflightCheck.args[8] = Str("pkg")
  /\ preflightCheck.args[9] = Str("--preflight-generate-acir")

\* C4: a launch request spawns at most one subprocess; while the subprocess
\* runs the request has no result; a request that spawned has a result only
\* once the subprocess has exited; and the request leaves its await only in
\* a step in which the subprocess has exited.
C4_BlocksUntilExit ==
  /\ launch.spawns <= 1
  /\ preflightCheck.state = "running" =>
       launch.pc = "awaiting" /\ launch.result = "pending" /\ launch.spawns = 1
  /\ (launch.spawns = 1 /\ launch.result # "pending") =>
       preflightCheck.state = "exited"

C4_Witness ==
  /\ launch.spawns = 1
  /\ launch.result = "error"
  /\ preflightCheck.state = "exited"
  /\ preflightCheck.data = MaxData

(***************************************************************************)
(* Properties of the sanitizer.                                            *)
(***************************************************************************)
\* the characters a log line may hold: tab, newline and space..~
Allowed == {9, 10} \cup (32..126)

\* the text of the line the sanitizer appended last
LastText == outputChannel[Len(outputChannel)].text

\* C5: the text the sanitizer produces holds only tab, newline and the
\* characters space..~, and it is the input when the input holds only such
\* characters (and so no escape sequence).
C5_SanitizedOutput ==
  printed =>
    /\ \A i \in 1..Len(LastText) : LastText[i] \in Allowed
    /\ (\A i \in 1..Len(toString(buffer)) : toString(buffer)[i] \in Allowed)
         => LastText = toString(buffer)

C5_Witness ==
  /\ printed
  /\ buffer = <<27, 91, 48, 109>>
  /\ LastText = <<>>

(***************************************************************************)
(* Properties of the test tree.                                            *)
(***************************************************************************)
\* the children of the node of package p, none when the tree has no such node
KidsOf(p) == itemsGet(items, p).kids

\* C6: once a snapshot of package p has been handed to #createTests, the
\* children of p's node are exactly the tests of that snapshot, in its order
\* (none when the snapshot has no tests field): what p held before is gone.
C6_PackageReplaced ==
  \A p \in Packages : applied[p] # NoSnapshot => KidsOf(p) = applied[p].tests

\* C6, for the snapshots that have a tests field: the children of p's node
\* are the tests of the last snapshot of p, in its order.
C6_ReplacedWhenTestsGiven ==
  \A p \in Packages :
    (applied[p] # NoSnapshot /\ applied[p].hasTests) => KidsOf(p) = applied[p].tests

(***************************************************************************)
(* Properties of the test runner.                                          *)
(***************************************************************************)
IsPrefix(s, t) == Len(s) <= Len(t) /\ s = SubSeq(t, 1, Len(s))

Reverse(s) == [i \in 1..Len(s) |-> s[Len(s) + 1 - i]]

\* the order in which a stack hands out the nodes pushed on it, a package
\* node that is not excluded pushing its children as it is handed out
RECURSIVE LifoOrder(_, _)
LifoOrder(stack, exclude) ==
  IF stack = <<>> THEN <<>>
  ELSE LET n == stack[Len(stack)]
           rest == SubSeq(stack, 1, Len(stack) - 1)
       IN <<n>> \o LifoOrder(IF n.parent # "" \/ n \in exclude
                             THEN rest ELSE rest \o children(n), exclude)

\* the run went through its whole queue
RanToTheEnd(run) == run.pc = "ended" /\ ~run.cancelled

\* C7: the nodes of a run are dequeued in last-pushed-first-popped order;
\* a run that is given just a package node with children [t1, t2] and runs
\* to its end sends the requests of t2 and then t1; in general the children
\* of a lone package are requested in the reverse of their order.
C7_StackOrder ==
  \A r \in 1..MaxRuns :
    LET run == runs[r]
    IN /\ IsPrefix(run.order, LifoOrder(run.initial, run.exclude))
       /\ RanToTheEnd(run) => run.order = LifoOrder(run.initial, run.exclude)
       /\ (/\ RanToTheEnd(run)
           /\ Len(run.initial) = 1
           /\ run.initial[1].parent = ""
           /\ run.exclude = {})
            => run.sent = Reverse(children(run.initial[1]))
       /\ (/\ RanToTheEnd(run)
           /\ run.initial = <<[id |-> "a", parent |-> "", kids |-> <<"t1", "t2">>]>>
           /\ run.exclude = {})
            => run.sent = <<[id |-> "t2", parent |-> "a", kids |-> <<>>],
                            [id |-> "t1", parent |-> "a", kids |-> <<>>]>>

C7_Witness ==
  /\ RanToTheEnd(runs[1])
  /\ runs[1].initial = <<[id |-> "a", parent |-> "", kids |-> <<"t1", "t2">>]>>
  /\ runs[1].exclude = {}
  /\ Len(runs[1].sent) = 2
  /\ runs[1].sent[1].id = "t2"

\* C8: a run request is sent, and a verdict reported, only for nodes that
\* have a parent; a package node that is dequeued and not excluded is
\* expanded, so a run that goes to its end dequeues each of its children.
C8_OnlyLeavesRun ==
  \A r \in 1..MaxRuns :
    LET run == runs[r]
    IN /\ \A i \in 1..Len(run.sent) : run.sent[i].parent # ""
       /\ \A i \in 1..Len(run.verdicts) : run.verdicts[i].test.parent # ""
       /\ run.test # NoItem => run.test.parent # ""
       /\ RanToTheEnd(run) =>
            \A i \in 1..Len(run.order) :
              (run.order[i].parent = "" /\ run.order[i] \notin run.exclude) =>
                \A j \in 1..Len(run.order[i].kids) :
                  \E k \in 1..Len(run.order) : run.order[k] = children(run.order[i])[j]

C8_Witness ==
  /\ RanToTheEnd(runs[1])
  /\ Len(runs[1].initial) = 2
  /\ Len(runs[1].order) = 5
  /\ Len(runs[1].sent) = 3
  /\ Len(runs[1].verdicts) = 3

\* C9 as stated: over all the invocations of the run handler, at most one
\* 'nargo/tests/run' request awaits its response.
C9_OneInFlight ==
  Cardinality({r \in 1..MaxRuns : runs[r].pc = "awaiting"}) <= 1

\* C9, amended: within each invocation of #runTest at most one request
\* awaits its response, and a request is sent only when every request the
\* invocation sent before has been answered.
C9_OneInFlightPerRun ==
  \A r \in 1..MaxRuns :
    LET run == runs[r]
    IN /\ run.pc \in {"awaiting", "rejected"} => Len(run.sent) = Len(run.verdicts) + 1
       /\ run.pc \in {"idle", "ended"} => Len(run.sent) = Len(run.verdicts)

C9_Witness ==
  /\ runs[1].pc = "awaiting"
  /\ runs[2].pc = "awaiting"
  /\ Len(runs[1].sent) = 2
  /\ Len(runs[1].verdicts) = 1

UpdateStep ==
  /\ handled' # handled
  /\ handled'.op = "update"
  /\ testController.created

\* C11: an update notification for package P handled by a client that has
\* its test tree first invalidates the results of P's present node, when the
\* host has invalidateTestResults, then adds the node built from the
\* snapshot, and makes no other call; afterwards P's node is that of the
\* snapshot and the node of every other package is the one it was.
C11_InvalidatesThenRebuilds ==
  [][UpdateStep =>
       LET testData == handled'.response[1]
           P == testData.package
       IN /\ handled'.calls =
               (IF testController.invalidateTestResults
                THEN <<InvalidateCall(itemsGet(items, P))>> ELSE <<>>)
                 \o <<AddCall(PackageItem(testData))>>
          /\ itemsGet(items', P) = PackageItem(testData)
          /\ \A q \in Packages \ {P} : itemsGet(items', q) = itemsGet(items, q)]_vars

\* C11, for the snapshots that have a tests field: the calls are made in
\* that order and only P's node changes.
C11_WhenTestsGiven ==
  [][(UpdateStep /\ handled'.response[1].hasTests) =>
       LET testData == handled'.response[1]
           P == testData.package
       IN /\ handled'.calls =
               (IF testController.invalidateTestResults
                THEN <<InvalidateCall(itemsGet(items, P))>> ELSE <<>>)
                 \o <<AddCall(PackageItem(testData))>>
          /\ itemsGet(items', P) = PackageItem(testData)
          /\ \A q \in Packages \ {P} : itemsGet(items', q) = itemsGet(items, q)]_vars

\* C12: the test controller exists only once the server has advertised a
\* tests block, and the tree has nodes only with a controller; a
\* 'nargo/tests' request is in flight, or has been answered, only if
\* tests.fetch was advertised; a run has started only if tests.run was.
C12_CapabilityGated ==
  /\ testController.created => (capabilities.initialized /\ capabilities.tests)
  /\ items # <<>> => testController.created
  /\ (requests.fetch \/ requests.refresh) => (capabilities.tests /\ capabilities.fetch)
  /\ handled.op \in {"fetch", "refresh"} => (capabilities.tests /\ capabilities.fetch)
  /\ \A r \in 1..MaxRuns :
       runs[r].pc # "idle" => (capabilities.tests /\ capabilities.run)

C12_Witness ==
  /\ requests.fetch
  /\ runs[1].pc = "awaiting"
  /\ Len(runs[1].sent) = 1

\* C13: whenever an update notification has been handled, the test
\* controller had been created.
C13_UpdateHasController ==
  handled.op = "update" => testController.created

\* the last entry of the response for its package
LastOfPackage(response, i) ==
  \A j \in (i + 1)..Len(response) : response[j].package # response[i].package

\* C16: when a population of the tree (resolve or refresh) has completed,
\* every package of the response has its node with the tests of its entry
\* (of its last entry, should it have several) as children, and the tree has
\* no node of a package that the response does not name.
C16_TreeRebuilt ==
  (handled.op \in {"fetch", "refresh"} /\ ~handled.threw) =>
    /\ \A i \in 1..Len(handled.response) :
         LastOfPackage(handled.response, i) =>
           itemsGet(items, handled.response[i].package) = PackageItem(handled.response[i])
    /\ \A j \in 1..Len(items) :
         \E i \in 1..Len(handled.response) : handled.response[i].package = items[j].id

\* C19: the tree has one node per package; a package has a node exactly when
\* a snapshot of it has been added, and the node is the one built from the
\* last snapshot added for it, children and order: never a mixture of two.
C19_WholeSnapshots ==
  /\ \A i, j \in 1..Len(items) : items[i].id = items[j].id => i = j
  /\ \A p \in Packages :
       IF added[p] = NoSnapshot
       THEN IndexOf(items, p) = 0
       ELSE itemsGet(items, p) = PackageItem(added[p])

\* a run of package a as [t1, t2] is suspended on a round-trip while an
\* update has cut a down to [t1] and a resolve response has then been applied
C19_Witness ==
  /\ runs[1].pc = "awaiting"
  /\ runs[1].initial = <<[id |-> "a", parent |-> "", kids |-> <<"t1", "t2">>]>>
  /\ KidsOf("a") = <<"t1">>
  /\ handled.op = "fetch"
  /\ Len(handled.response) = 2
  /\ KidsOf("b") = <<"t1", "t2">>

(***************************************************************************)
(* Properties of the verdicts, the request and the end of a run.           *)
(***************************************************************************)
\* C14: a run has reported one verdict per response it received, the i-th
\* on the test of its i-th request whatever id the response carries:
\* passed exactly when the result is 'pass', failed with the message of the
\* response exactly when the result is 'fail' or 'error'.
C14_OneVerdictPerRoundTrip ==
  \A r \in 1..MaxRuns :
    LET run == runs[r]
    IN /\ Len(run.verdicts) = Len(run.responses)
       /\ \A i \in 1..Len(run.responses) :
            /\ run.verdicts[i].test = run.sent[i]
            /\ run.verdicts[i].state = "passed" <=> run.responses[i].result = "pass"
            /\ (/\ run.verdicts[i].state = "failed"
                /\ run.verdicts[i].message = run.responses[i].message)
                 <=> run.responses[i].result \in {"fail", "error"}

C14_Witness ==
  /\ runs[1].pc = "ended"
  /\ Len(runs[1].responses) = 3
  /\ runs[1].responses[1].result = "error"
  /\ runs[1].responses[1].id = "other"
  /\ runs[1].responses[2].result = "fail"
  /\ runs[1].responses[3].result = "pass"
  /\ runs[1].verdicts[1].state = "failed"

\* node is the child of a package node that was dequeued before place i of
\* order and was not excluded
Expanded(run, i) ==
  \E j \in 1..(i - 1) :
    /\ run.order[j].parent = ""
    /\ run.order[j] \notin run.exclude
    /\ \E k \in 1..Len(run.order[j].kids) : children(run.order[j])[k] = run.order[i]

\* C15: a run starts from request.include when the request has one and from
\* the package nodes of the tree, as it is at that moment, when it has
\* none; no request is sent for a node of request.exclude; a leaf is
\* dequeued only if it was in the starting nodes or is the child of a
\* dequeued package node that is not excluded.
C15_IncludeExclude ==
  [][\A r \in 1..MaxRuns :
       LET run == runs'[r]
       IN /\ (runs[r].pc = "idle" /\ run.pc # "idle") =>
               run.initial = IF run.included THEN run.include ELSE items
          /\ \A i \in 1..Len(run.sent) : run.sent[i] \notin run.exclude
          /\ \A i \in 1..Len(run.order) :
               run.order[i].parent # "" =>
                 \/ \E k \in 1..Len(run.initial) : run.initial[k] = run.order[i]
                 \/ Expanded(run, i)]_vars

\* package a is included with its child t1 and is excluded: t1 is run, and
\* it alone
C15_Witness ==
  /\ runs[1].pc = "ended"
  /\ runs[1].included
  /\ runs[1].include = <<[id |-> "a", parent |-> "", kids |-> <<"t1", "t2">>],
                         [id |-> "t1", parent |-> "a", kids |-> <<>>]>>
  /\ runs[1].exclude = {[id |-> "a", parent |-> "", kids |-> <<"t1", "t2">>]}
  /\ runs[1].sent = <<[id |-> "t1", parent |-> "a", kids |-> <<>>]>>
  /\ Len(runs[1].order) = 2

\* C17: a run takes at most one rejection; when it has taken one it has left
\* #runTest by the exception: the failed request was its last, it has no
\* verdict for it, run.end() was not called, and nothing of the run changes
\* any more.
C17_RejectionIsTerminal ==
  [][\A r \in 1..MaxRuns :
       /\ runs'[r].rejections > 0 =>
            /\ runs'[r].rejections = 1
            /\ runs'[r].pc = "rejected"
            /\ Len(runs'[r].sent) = Len(runs'[r].verdicts) + 1
            /\ runs'[r].sent[Len(runs'[r].sent)] = runs'[r].test
            /\ runs'[r].ended = 0
       /\ (runs[r].rejections = 0 /\ runs'[r].rejections > 0) =>
            /\ runs'[r].sent = runs[r].sent
            /\ runs'[r].verdicts = runs[r].verdicts
       /\ runs[r].pc = "rejected" => runs'[r] = runs[r]]_vars

C17_Witness ==
  /\ runs[1].pc = "rejected"
  /\ Len(runs[1].sent) = 2
  /\ Len(runs[1].verdicts) = 1
  /\ runs[1].queue # <<>>

\* C18: a run that has been created is eventually ended; run.end() is
\* called at most once, and no verdict is reported once it has been called.
\* With a server that answers with a response or with an error
\* (SpecRunFair) a rejected run is never ended; with one that answers every
\* request with a response (SpecRunAnswered) the property holds.
C18_EndedExactlyOnce ==
  /\ (runs[1].pc # "idle") ~> (runs[1].ended = 1)
  /\ [](runs[1].ended <= 1)
  /\ [][runs[1].ended = 1 => runs'[1].verdicts = runs[1].verdicts]_vars

(***************************************************************************)
(* Properties of the launcher's log sink.                                  *)
(***************************************************************************)
\* the sink holds a line that reports an exit code
HasExitLine == \E i \in 1..Len(outputChannel) : outputChannel[i].kind = "Exited with code"

\* C20: a launch whose subprocess exited with a code other than 0 appended
\* the line of that code to the sink, then showed the sink and then threw,
\* in this order; a launch whose subprocess exited with 0 appended no
\* exit-code line, did not show the sink and did not throw.
C20_ExitLineShowThrow ==
  /\ (Completed /\ preflightCheck.code # Code(0)) =>
       /\ launch.events = <<"exit line", "show", "throw">>
       /\ \E i \in 1..Len(outputChannel) : outputChannel[i] = ExitLine(preflightCheck.code)
       /\ launch.showed
       /\ launch.result = "error"
  /\ (Completed /\ preflightCheck.code = Code(0)) =>
       /\ launch.events = <<"starting line", "return">>
       /\ ~HasExitLine
       /\ ~launch.showed
       /\ launch.result = "config"

C20_Witness ==
  /\ Completed
  /\ preflightCheck.code = Code(1)
  /\ preflightCheck.data = 1
  /\ launch.events = <<"exit line", "show", "throw">>
  /\ Len(outputChannel) = 5

====
